---- MODULE Spec2Model ----
(***************************************************************************)
(* Model of the CAIXA property scraper (src/script.py, src/parser.py).     *)
(*                                                                         *)
(*   SpecCity    the city-name cascade of _obter_codigo_cidade, applied to *)
(*               bounded city lists and inputs.                            *)
(*   SpecClient  the HTTP layer: _init_session, _refresh_session and the   *)
(*               decorated _post/_get (rate limit, retry), driven by a     *)
(*               caller that makes a bounded number of calls while time    *)
(*               passes in ticks of half a second.                         *)
(*   SpecRate    the same layer on untouched rate-limit counters, under    *)
(*               enough calls to fill a window.                            *)
(*   SpecPipe    scrape_all_properties, run more than once on one          *)
(*               instance, one step per request; each call of _post ends   *)
(*               in one of the ways SpecClient shows.                      *)
(*   SpecBairro  detect_bairro_from_endereco on bounded addresses and      *)
(*               neighborhood lists.                                       *)
(*   SpecExtract extract_properties_from_page on bounded pages: listing    *)
(*               items of the results section, or table rows.              *)
(*   SpecFrag    one turn of the page loop of scrape_all_properties with   *)
(*               the fragment's content: fetch, wrap, extract, extend.     *)
(*                                                                         *)
(* Strings the code inspects character by character are sequences of       *)
(* one-character strings; strings it only compares are TLA+ strings.       *)
(***************************************************************************)
EXTENDS Integers, Sequences, FiniteSets, TLC

VARIABLES
    estado,        \* self.estado
    cidade,        \* self.cidade: the free-text city name
    matches,       \* re.findall(option_pattern, html): <<value, city_text>> pairs
    cityOut,       \* outcome of _obter_codigo_cidade on (estado, cidade, matches)
    session,       \* self.session: "none", "ready" (handshake done) or "closed"
    pc,            \* where the call in progress stands: "idle", "limits", "body"
    cur,           \* the decorated method in progress: "post" or "get"
    limiter,       \* per decorated method: num_calls and clock() - last_reset
    sent,          \* HTTP requests answered in the current tick and those before
    attempts,      \* HTTP attempts the call in progress has made
    firstGot,      \* what the first attempt of the call got
    lastGot,       \* what the latest attempt of the call got
    closes,        \* session.close() calls during the call
    handshakes,    \* handshake GETs issued during the call
    sentOn,        \* state of self.session when the latest attempt was sent
    result,        \* how the latest call ended
    callsLeft,     \* calls the caller still makes
    ppc,           \* where scrape_all_properties stands: "idle" between runs
    runsLeft,      \* runs of scrape_all_properties the caller still starts
    runOut,        \* how the latest run ended: "done", or the error raised
    failedAt,      \* the step at which the latest run raised
    bairros_disponiveis,  \* self.parser.bairros_disponiveis
    bairrosReq,    \* this run's _obter_bairros: "-", "loaded" or "failed"
    cod_cidade,    \* the city code of this run
    ids_por_pagina,       \* page number -> identifier batch
    total_paginas,
    total_registros,
    page_num,      \* the loop variable of the page loop
    all_properties,       \* records gathered by this run
    scraped_properties,   \* self.scraped_properties
    log,           \* requests of this run, in order: <<endpoint, page>>
    endereco,      \* the address handed to detect_bairro_from_endereco
    bairro,        \* what the latest detection returned
    firstBairro,   \* what the first detection returned
    detections,    \* detections run so far on (endereco, bairros_disponiveis)
    html_content,  \* the page handed to extract_properties_from_page
    properties,    \* the list it returned
    extracted      \* whether it has run

cityVars == <<estado, cidade, matches, cityOut>>
clientVars ==
    <<session, pc, cur, limiter, sent, attempts, firstGot, lastGot, closes,
      handshakes, sentOn, result, callsLeft>>
pipeVars ==
    <<ppc, runsLeft, runOut, failedAt, bairros_disponiveis, bairrosReq,
      cod_cidade, ids_por_pagina, total_paginas, total_registros, page_num,
      all_properties, scraped_properties, log>>
detectVars == <<endereco, bairro, firstBairro, detections>>
pageVars == <<html_content, properties, extracted>>
parserVars == <<detectVars, pageVars>>
vars == <<cityVars, clientVars, pipeVars, parserVars>>

(***************************************************************************)
(* Bounds.                                                                 *)
(***************************************************************************)
MaxInputLen == 2     \* longest generated city input
MaxTextLen == 2      \* longest generated option text
MaxCities == 2       \* most <option> matches in a city-list response
MaxCalls == 2        \* calls of _post/_get the caller makes (SpecClient)
MaxRateCalls == 7    \* calls of _post/_get the caller makes (SpecRate)

(***************************************************************************)
(* Program constants; times are in ticks of half a second.                 *)
(***************************************************************************)
Calls == 6           \* @limits(calls=6, ...)
Period == 2          \* @limits(..., period=1): one second
MaxAttempts == 5     \* stop_after_attempt(5)
BackoffMultiplier == 1   \* wait_exponential(multiplier=0.5, ...)
BackoffMin == 1      \* wait_exponential(..., min=0.5, ...)
BackoffMax == 12     \* wait_exponential(..., max=6)
JitterMin == 1       \* time.sleep(0.5 + random.random()): from 0.5 s ...
JitterMax == 2       \* ... to just under 1.5 s

(***************************************************************************)
(* Character strings.                                                      *)
(***************************************************************************)
Chars == {"a", " "}

Selecione == <<"S", "e", "l", "e", "c", "i", "o", "n", "e">>
SAO_PAULO == <<"S", "A", "O", " ", "P", "A", "U", "L", "O">>
SaoPauloCapital == SAO_PAULO \o <<" ", " ", "-", " ">> \o <<"c", "a", "p">>

\* str.upper() on the characters the model uses
UpperChar(c) ==
    CASE c = "a" -> "A"
      [] c = "b" -> "B"
      [] c = "c" -> "C"
      [] c = "d" -> "D"
      [] c = "e" -> "E"
      [] c = "f" -> "F"
      [] c = "g" -> "G"
      [] c = "h" -> "H"
      [] c = "i" -> "I"
      [] c = "j" -> "J"
      [] c = "k" -> "K"
      [] c = "l" -> "L"
      [] c = "m" -> "M"
      [] c = "n" -> "N"
      [] c = "o" -> "O"
      [] c = "p" -> "P"
      [] c = "q" -> "Q"
      [] c = "r" -> "R"
      [] c = "s" -> "S"
      [] c = "t" -> "T"
      [] c = "u" -> "U"
      [] c = "v" -> "V"
      [] c = "w" -> "W"
      [] c = "x" -> "X"
      [] c = "y" -> "Y"
      [] c = "z" -> "Z"
      [] c = "ú" -> "Ú"
      [] c = "ó" -> "Ó"
      [] c = "ç" -> "Ç"
      [] OTHER -> c

Upper(s) == [i \in 1..Len(s) |-> UpperChar(s[i])]

IsSpace(c) == c = " "

\* str.strip(): leading and trailing whitespace removed
RECURSIVE LStrip(_)
LStrip(s) == IF s # <<>> /\ IsSpace(Head(s)) THEN LStrip(Tail(s)) ELSE s

RECURSIVE RStrip(_)
RStrip(s) ==
    IF s # <<>> /\ IsSpace(s[Len(s)]) THEN RStrip(SubSeq(s, 1, Len(s) - 1)) ELSE s

Strip(s) == RStrip(LStrip(s))

\* re.sub(r"\s+", " ", s): every run of whitespace becomes one blank
RECURSIVE CollapseWs(_)
CollapseWs(s) ==
    IF s = <<>> THEN <<>>
    ELSE IF IsSpace(Head(s))
         THEN <<" ">> \o CollapseWs(LStrip(s))
         ELSE <<Head(s)>> \o CollapseWs(Tail(s))

\* _norm
Norm(s) == CollapseWs(Upper(Strip(s)))

\* Python's `a in b` on strings
Contains(b, a) ==
    \E i \in 0..(Len(b) - Len(a)) : SubSeq(b, i + 1, i + Len(a)) = a

\* every string over Chars of length at most n
RECURSIVE StringsUpTo(_)
StringsUpTo(n) ==
    IF n = 0 THEN {<<>>}
    ELSE LET shorter == StringsUpTo(n - 1)
         IN  shorter \cup {Append(s, c) : s \in shorter, c \in Chars}

(***************************************************************************)
(* City resolution: _obter_codigo_cidade after the city-list response.     *)
(***************************************************************************)
\* the filter of the option loop: a value, a non-blank text, not "Selecione"
KeepOption(m) ==
    /\ m[1] # ""
    /\ Strip(m[2]) # <<>>
    /\ Upper(Strip(m[2])) # Upper(Selecione)

\* the options the loop keeps, as <<value, normalized_city>>
RECURSIVE KeptOptions(_)
KeptOptions(ms) ==
    IF ms = <<>> THEN <<>>
    ELSE LET rest == KeptOptions(Tail(ms))
             m == Head(ms)
         IN  IF KeepOption(m) THEN <<<<m[1], Norm(Strip(m[2]))>>>> \o rest ELSE rest

\* available_cities: the normalized names in response order, duplicates kept
AvailableCities(ms) ==
    LET kept == KeptOptions(ms) IN [i \in 1..Len(kept) |-> kept[i][2]]

\* the keys of the dict city_options, in insertion order (first occurrence)
CityKeys(ms) ==
    LET av == AvailableCities(ms)
        first == SelectSeq([i \in 1..Len(av) |-> i],
                           LAMBDA i : \A j \in 1..(i - 1) : av[j] # av[i])
    IN  [k \in 1..Len(first) |-> av[first[k]]]

\* city_options[name]: the value assigned last under that key
CityValue(ms, name) ==
    LET kept == KeptOptions(ms)
        last == CHOOSE i \in 1..Len(kept) :
                    /\ kept[i][2] = name
                    /\ \A j \in (i + 1)..Len(kept) : kept[j][2] # name
    IN  kept[last][1]

\* CITY_CODE_OVERRIDES.get((estado, alvo)); "" stands for None
CityCodeOverride(uf, alvo) ==
    IF uf = "SP" /\ alvo = SAO_PAULO THEN "9859" ELSE ""

\* first position of a sequence of booleans that holds TRUE; 0 if none
LastTrue(hits) ==
    IF \E k \in 1..Len(hits) : hits[k]
    THEN CHOOSE k \in 1..Len(hits) :
             hits[k] /\ \A j \in (k + 1)..Len(hits) : ~hits[j]
    ELSE 0
FirstTrue(hits) ==
    IF \E k \in 1..Len(hits) : hits[k]
    THEN CHOOSE k \in 1..Len(hits) : hits[k] /\ \A j \in 1..(k - 1) : ~hits[j]
    ELSE 0

\* alvo = self._norm(nome_cidade)
AlvoRaw(nome_cidade) == nome_cidade
Alvo(nome_cidade) == Norm(nome_cidade)

\* "busca parcial (contem)": alvo in city_name
PartialTestSwapped(alvo, city_name) == Contains(alvo, city_name)
PartialTest(alvo, city_name) == Contains(city_name, alvo)

\* "busca reversa": city_name in alvo
ReverseTestSwapped(alvo, city_name) == Contains(city_name, alvo)
ReverseTest(alvo, city_name) == Contains(alvo, city_name)

\* the ValueError of the last line: its message lists available_cities
CityNotFoundNoList(ms) ==
    [kind |-> "ValueError", via |-> "", code |-> "", cities |-> <<>>]
CityNotFound(ms) ==
    [kind |-> "ValueError", via |-> "", code |-> "",
     cities |-> AvailableCities(ms)]

\* the cascade: exact, partial, reverse, override, ValueError
ObterCodigoCidade(uf, nome_cidade, ms) ==
    LET alvo == Alvo(nome_cidade)
        keys == CityKeys(ms)
        isKey == \E k \in 1..Len(keys) : keys[k] = alvo
        part == FirstTrue([k \in 1..Len(keys) |-> PartialTest(alvo, keys[k])])
        rev == FirstTrue([k \in 1..Len(keys) |-> ReverseTest(alvo, keys[k])])
        override == CityCodeOverride(uf, alvo)
    IN  IF isKey
        THEN [kind |-> "code", via |-> "exata", code |-> CityValue(ms, alvo),
              cities |-> <<>>]
        ELSE IF part # 0
        THEN [kind |-> "code", via |-> "parcial",
              code |-> CityValue(ms, keys[part]), cities |-> <<>>]
        ELSE IF rev # 0
        THEN [kind |-> "code", via |-> "reversa",
              code |-> CityValue(ms, keys[rev]), cities |-> <<>>]
        ELSE IF override # ""
        THEN [kind |-> "code", via |-> "fallback", code |-> override,
              cities |-> <<>>]
        ELSE CityNotFound(ms)

NoCityOut == [kind |-> "none", via |-> "", code |-> "", cities |-> <<>>]


(***************************************************************************)
(* The HTTP layer.                                                         *)
(***************************************************************************)
Kinds == {"post", "get"}

\* what one HTTP attempt can get: a clean response, a 4xx, a 5xx, a response
\* with the captcha banner (whatever its status), or a RequestException
Outcomes == {"ok", "c4xx", "s5xx", "captcha", "neterr"}

\* what the handshake GET of _init_session can get: any response at all (its
\* status and body are not looked at) or a RequestException
HandshakeOutcomes == {"ok", "neterr"}

Min2(a, b) == IF a < b THEN a ELSE b
Max2(a, b) == IF a > b THEN a ELSE b

RECURSIVE Pow2(_)
Pow2(n) == IF n = 0 THEN 1 ELSE 2 * Pow2(n - 1)

\* wait_exponential(multiplier=0.5, min=0.5, max=6) after the n-th attempt
Backoff(n) ==
    Max2(BackoffMin, Min2(BackoffMultiplier * Pow2(n - 1), BackoffMax))

\* the request counters are kept up to one more than the ceiling
Sat(n) == Min2(n, Calls + 1)

\* one more request in the current tick. A request is counted when it is
\* answered: one that ends in a RequestException may never have left.
CountRequest(w, got) == IF got = "neterr" THEN w ELSE [w EXCEPT ![1] = Sat(@ + 1)]

\* d ticks later: the per-tick request counts move back, the clocks advance
ShiftSent(w, d) == [i \in 1..Period |-> IF i > d THEN w[i - d] ELSE 0]
Elapse(lim, d) ==
    [k \in Kinds |-> [lim[k] EXCEPT !.elapsed = Min2(@ + d, Period)]]

\* assert self.session is not None
AssertSkipped(s) == TRUE
SessionAsserted(s) == s # "none"

\* _init_session on session s when the handshake GET would get h:
\* the session after it, the requests it issued, whether it raised
InitSessionAlways(s, h) ==
    [session |-> IF h = "ok" THEN "ready" ELSE "none",
     requests |-> 1, raised |-> h # "ok"]
InitSessionOn(s, h) ==
    IF s = "none"
    THEN [session |-> IF h = "ok" THEN "ready" ELSE "none",
          requests |-> 1, raised |-> h # "ok"]
    ELSE [session |-> s, requests |-> 0, raised |-> FALSE]

\* _refresh_session up to its sleep: the session it leaves for _init_session
DiscardKeepsClosed(s) == IF s = "none" THEN "none" ELSE "closed"
Discard(s) == "none"

\* the retry decision of tenacity after the n-th attempt raised a
\* RequestException: stop (re-raise) or sleep and call the body again
StopAfterAttempt(n) == n >= MaxAttempts

\* the caller invokes _post or _get, after a call of _init_session (as
\* _obter_codigo_cidade, _obter_bairros, _iniciar_pesquisa do) or without
\* one (as _carregar_pagina_fragmento does); h is what the handshake GET of
\* _init_session gets, if it issues one
Call(kind, init, h) ==
    /\ UNCHANGED <<cityVars, pipeVars, parserVars>>
    /\ pc = "idle"
    /\ callsLeft > 0
    /\ callsLeft' = callsLeft - 1
    /\ cur' = kind
    /\ attempts' = 0
    /\ firstGot' = "none"
    /\ lastGot' = "none"
    /\ closes' = 0
    /\ handshakes' = 0
    /\ sentOn' = "-"
    /\ LET pre == IF init THEN InitSessionOn(session, h)
                  ELSE [session |-> session, requests |-> 0, raised |-> FALSE]
       IN  /\ session' = pre.session
           /\ sent' = IF pre.requests = 1 THEN CountRequest(sent, h) ELSE sent
           /\ pc' = IF pre.raised THEN "idle" ELSE "limits"
           /\ result' = IF pre.raised THEN "RequestException" ELSE "none"
    /\ UNCHANGED limiter

\* the wrapper of @limits: the window is reset once the period has elapsed
\* since last_reset, the call is counted, and it goes through while the count
\* is within the ceiling
LimitsWindow(l) ==
    IF Period - l.elapsed <= 0 THEN [num_calls |-> 0, elapsed |-> 0] ELSE l

RateLimitAdmit ==
    /\ UNCHANGED <<cityVars, pipeVars, parserVars>>
    /\ pc = "limits"
    /\ LET l == LimitsWindow(limiter[cur])
       IN  /\ l.num_calls + 1 <= Calls
           /\ limiter' = [limiter EXCEPT ![cur] = [l EXCEPT !.num_calls = @ + 1]]
    /\ pc' = "body"
    /\ UNCHANGED <<session, cur, sent, attempts, firstGot, lastGot, closes,
                   handshakes, sentOn, result, callsLeft>>

\* over the ceiling: RateLimitException(period_remaining); @sleep_and_retry
\* sleeps that long and calls the wrapper again
RateLimitSleep ==
    /\ UNCHANGED <<cityVars, pipeVars, parserVars>>
    /\ pc = "limits"
    /\ LET l == LimitsWindow(limiter[cur])
           counted == [limiter EXCEPT ![cur] = [l EXCEPT !.num_calls = @ + 1]]
           period_remaining == Period - l.elapsed
       IN  /\ l.num_calls + 1 > Calls
           /\ limiter' = Elapse(counted, period_remaining)
           /\ sent' = ShiftSent(sent, period_remaining)
    /\ UNCHANGED <<session, pc, cur, attempts, firstGot, lastGot, closes,
                   handshakes, sentOn, result, callsLeft>>

\* the call ends: it returns the response or an exception leaves it
EndCall(how) ==
    /\ pc' = "idle"
    /\ result' = how

\* tenacity after an attempt raised RequestException, d ticks after the
\* attempt's request, with w the request counts up to then
RetryOrStop(w, d) ==
    IF StopAfterAttempt(attempts + 1)
    THEN /\ EndCall("RequestException")
         /\ sent' = w
         /\ limiter' = Elapse(limiter, d)
    ELSE /\ pc' = "body"
         /\ result' = result
         /\ sent' = ShiftSent(w, Backoff(attempts + 1))
         /\ limiter' = Elapse(limiter, d + Backoff(attempts + 1))

\* the body is called without a session: the assertion fails, the
\* AssertionError is not a RequestException and leaves the call
AttemptAssertFails ==
    /\ UNCHANGED <<cityVars, pipeVars, parserVars>>
    /\ pc = "body"
    /\ ~SessionAsserted(session)
    /\ EndCall("AssertionError")
    /\ UNCHANGED <<session, cur, limiter, sent, attempts, firstGot, lastGot, closes,
                   handshakes, sentOn, callsLeft>>

\* one attempt of the body of _post/_get that gets outcome o; on a captcha
\* _refresh_session sleeps j ticks and its handshake GET gets h
Attempt(o, j, h) ==
    /\ UNCHANGED <<cityVars, pipeVars, parserVars>>
    /\ pc = "body"
    /\ SessionAsserted(session)
    /\ attempts' = attempts + 1
    /\ firstGot' = IF attempts = 0 THEN o ELSE firstGot
    /\ lastGot' = o
    /\ sentOn' = session
    /\ UNCHANGED <<cur, callsLeft>>
    /\ LET w == CountRequest(sent, o)
       IN  CASE o \in {"ok", "c4xx"} ->
                   \* neither captcha nor status >= 500: return resp
                   /\ EndCall("returned")
                   /\ sent' = w
                   /\ UNCHANGED <<session, limiter, closes, handshakes>>
             [] o \in {"s5xx", "neterr"} ->
                   /\ RetryOrStop(w, 0)
                   /\ UNCHANGED <<session, closes, handshakes>>
             [] o = "captcha" ->
                   LET init == InitSessionOn(Discard(session), h)
                       atInit == ShiftSent(w, j)
                       w2 == IF init.requests = 1
                             THEN CountRequest(atInit, h) ELSE atInit
                   IN  /\ closes' = closes + 1
                       /\ handshakes' = handshakes + init.requests
                       /\ session' = init.session
                       /\ RetryOrStop(w2, j)

\* half a second passes
Tick ==
    /\ UNCHANGED <<cityVars, pipeVars, parserVars>>
    /\ sent' = ShiftSent(sent, 1)
    /\ limiter' = Elapse(limiter, 1)
    /\ UNCHANGED <<session, pc, cur, attempts, firstGot, lastGot, closes,
                   handshakes, sentOn, result, callsLeft>>

\* a new CaixaScraperSP, no call made yet
NoCallYet ==
    /\ session = "none"
    /\ pc = "idle"
    /\ cur = "none"
    /\ attempts = 0
    /\ firstGot = "none"
    /\ lastGot = "none"
    /\ closes = 0
    /\ handshakes = 0
    /\ sentOn = "-"
    /\ result = "none"

\* the decorators' counters as the module import leaves them
ClientIdle ==
    /\ NoCallYet
    /\ limiter = [k \in Kinds |-> [num_calls |-> 0, elapsed |-> 0]]
    /\ sent = [i \in 1..Period |-> 0]

\* the loop state of scrape_all_properties before a run has set it
NoRunYet ==
    /\ ppc = "idle"
    /\ runOut = "none"
    /\ failedAt = "-"
    /\ bairrosReq = "-"
    /\ cod_cidade = ""
    /\ ids_por_pagina = <<>>
    /\ total_paginas = 1
    /\ total_registros = 0
    /\ page_num = 1
    /\ all_properties = <<>>
    /\ log = <<>>

\* a page with nothing in it
NoPage == [results |-> FALSE, form |-> FALSE, items |-> <<>>, tables |-> <<>>]

\* no detection and no extraction run yet
ParserIdle ==
    /\ endereco = <<>>
    /\ bairro = <<>>
    /\ firstBairro = <<>>
    /\ detections = 0
    /\ html_content = NoPage
    /\ properties = <<>>
    /\ extracted = FALSE

\* a new CaixaScraperSP: an empty record list, a parser with no neighborhood
PipeIdle ==
    /\ NoRunYet
    /\ bairros_disponiveis = <<>>
    /\ scraped_properties = <<>>

(***************************************************************************)
(* SpecCity: the cascade on every bounded input.                           *)
(***************************************************************************)
CityInputs ==
    ({"SP"} \X StringsUpTo(MaxInputLen))
        \cup ({"SP", "RJ"} \X {SAO_PAULO, SaoPauloCapital})

OptionTexts ==
    (StringsUpTo(MaxTextLen) \ {<<>>})
        \cup {Selecione, SAO_PAULO, <<"a", "a", "a">>, <<"a", " ", " ", "a">>}

\* responses of carregaListaCidades.asp: the option values are told apart by
\* their position in the response
OptionLists ==
    UNION {
        {[i \in 1..n |-> <<ToString(i), t[i]>>] : t \in [1..n -> OptionTexts]}
        : n \in 0..MaxCities}

InitCity ==
    /\ \E in \in CityInputs : estado = in[1] /\ cidade = in[2]
    /\ matches \in OptionLists
    /\ cityOut = NoCityOut
    /\ ClientIdle
    /\ callsLeft = 0
    /\ PipeIdle
    /\ ParserIdle
    /\ runsLeft = 0

\* _obter_codigo_cidade from the response on
ResolveCity ==
    /\ cityOut.kind = "none"
    /\ cityOut' = ObterCodigoCidade(estado, cidade, matches)
    /\ UNCHANGED <<estado, cidade, matches>>
    /\ UNCHANGED <<clientVars, pipeVars, parserVars>>

NextCity == ResolveCity

SpecCity == InitCity /\ [][NextCity]_vars

(***************************************************************************)
(* SpecClient: the caller makes MaxCalls calls.                            *)
(***************************************************************************)
\* The counters of @limits belong to the decorated functions of the class,
\* not to an instance: a new scraper finds them as earlier instances left
\* them, here untouched or with the window just filled by calls that sent
\* one request each.
InitClient ==
    /\ estado = "SP"
    /\ cidade = SAO_PAULO
    /\ matches = <<>>
    /\ cityOut = NoCityOut
    /\ NoCallYet
    /\ \E np \in {0, Calls}, ng \in {0, Calls} :
           /\ limiter = [k \in Kinds |->
                            [num_calls |-> IF k = "post" THEN np ELSE ng,
                             elapsed |-> 0]]
           /\ sent = [i \in 1..Period |-> IF i = 1 THEN Sat(np + ng) ELSE 0]
    /\ callsLeft = MaxCalls
    /\ PipeIdle
    /\ ParserIdle
    /\ runsLeft = 0

CallAny ==
    \E kind \in Kinds, init \in BOOLEAN, h \in HandshakeOutcomes :
        Call(kind, init, h)

AttemptAny ==
    \E o \in Outcomes, j \in JitterMin..JitterMax, h \in HandshakeOutcomes :
        Attempt(o, j, h)

NextClient ==
    \/ CallAny
    \/ RateLimitAdmit
    \/ RateLimitSleep
    \/ AttemptAssertFails
    \/ AttemptAny
    \/ Tick

SpecClient == InitClient /\ [][NextClient]_vars

(***************************************************************************)
(* SpecRate: the same layer under a caller that makes MaxRateCalls calls,  *)
(* enough to go over the ceiling of the rate limit.                        *)
(***************************************************************************)
InitRate ==
    /\ estado = "SP"
    /\ cidade = SAO_PAULO
    /\ matches = <<>>
    /\ cityOut = NoCityOut
    /\ ClientIdle
    /\ callsLeft = MaxRateCalls
    /\ PipeIdle
    /\ ParserIdle
    /\ runsLeft = 0

SpecRate == InitRate /\ [][NextClient]_vars

(***************************************************************************)
(* Claims about city resolution (checked under SpecCity).                  *)
(***************************************************************************)
SetMax(S) == CHOOSE i \in S : \A j \in S : j <= i
SetMin(S) == CHOOSE i \in S : \A j \in S : i <= j

\* positions of the response's options that count as candidates
Candidates == {i \in 1..Len(matches) : KeepOption(matches[i])}
CandName(i) == Norm(matches[i][2])
TargetName == Norm(cidade)
Resolved == cityOut.kind # "none"

ExactAt == {i \in Candidates : CandName(i) = TargetName}
\* candidates that strictly contain the input / are strictly contained in it
ContainingAt ==
    {i \in Candidates :
        CandName(i) # TargetName /\ Contains(CandName(i), TargetName)}
ContainedAt ==
    {i \in Candidates :
        CandName(i) # TargetName /\ Contains(TargetName, CandName(i))}
CodesAt(S) == {matches[i][1] : i \in S}
\* the code the response gives last for the name of candidate i
LastCodeOf(i) ==
    matches[SetMax({j \in Candidates : CandName(j) = CandName(i)})][1]

\* C6: an input whose normalized form equals a candidate's normalized name
\* resolves to the code listed (last) for that name, whatever other candidates
\* contain the input or are contained in it.
C6_ExactMatchWins ==
    (Resolved /\ ExactAt # {}) =>
        /\ cityOut.kind = "code"
        /\ cityOut.code = matches[SetMax(ExactAt)][1]

\* C6 witness: the exact candidate is listed after one that contains the input
C6_Witness ==
    /\ Resolved
    /\ ExactAt # {}
    /\ ContainingAt # {}
    /\ SetMin(ContainingAt) < SetMin(ExactAt)
    /\ cityOut.code = matches[SetMax(ExactAt)][1]

NoMatchNoOverride ==
    /\ Resolved
    /\ ExactAt \cup ContainingAt \cup ContainedAt = {}
    /\ ~(estado = "SP" /\ TargetName = SAO_PAULO)

CarriesEveryCity ==
    /\ Len(cityOut.cities) = Cardinality(Candidates)
    /\ \A i \in Candidates :
           \E k \in 1..Len(cityOut.cities) : cityOut.cities[k] = CandName(i)

\* C9 as claimed: an input with no match and no override fails with an error
\* that carries every available city name, and the list is not empty (the
\* city-list request succeeded in every state of SpecCity).
C9_ErrorListNonEmpty ==
    NoMatchNoOverride =>
        /\ cityOut.kind = "ValueError"
        /\ CarriesEveryCity
        /\ cityOut.cities # <<>>

\* C9 amended: such an input fails with an error that carries the normalized
\* name of every candidate of the response, one entry per candidate; the list
\* is empty when the response holds no candidate.
C9_ErrorCarriesCities ==
    NoMatchNoOverride =>
        /\ cityOut.kind = "ValueError"
        /\ CarriesEveryCity

\* C9 witness: a failed resolution that lists two candidate names
C9_Witness ==
    /\ NoMatchNoOverride
    /\ cityOut.kind = "ValueError"
    /\ Len(cityOut.cities) = 2
    /\ cityOut.cities[1] # cityOut.cities[2]

\* C23: an empty or whitespace-only city name, with at least one candidate
\* in the response, does not fail: the empty string is found in the first
\* candidate's name and the code listed (last) for that name is returned.
C23_BlankInputTakesFirst ==
    (Resolved /\ Strip(cidade) = <<>> /\ Candidates # {}) =>
        /\ cityOut.kind = "code"
        /\ cityOut.via = "parcial"
        /\ cityOut.code = LastCodeOf(SetMin(Candidates))

\* C23 witness: a whitespace-only name and two candidates of different
\* names; the code of the first is returned
C23_Witness ==
    /\ Resolved
    /\ cidade = <<" ", " ">>
    /\ Cardinality(Candidates) = 2
    /\ CandName(1) # CandName(2)
    /\ cityOut.code = matches[1][1]

(***************************************************************************)
(* Claims about the HTTP layer (checked under SpecRate and SpecClient).    *)
(***************************************************************************)
RECURSIVE SumFirst(_, _)
SumFirst(w, n) == IF n = 0 THEN 0 ELSE w[n] + SumFirst(w, n - 1)

\* requests sent within the last second
SentInWindow == SumFirst(sent, Period)

\* C1 as claimed: no second holds more than 6 HTTP requests, handshake GETs
\* and the requests of _post and _get counted together.
C1_AtMostSixPerSecond == SentInWindow <= Calls

CallEnded == pc = "idle" /\ result # "none"
Retryable == {"neterr", "s5xx", "captcha"}

\* C2 as claimed: a call makes at most 5 attempts, and it ends after an
\* attempt that got a network error, a 5xx or a captcha only when that was
\* the 5th attempt, with the RequestException of that attempt.
C2_RetriesUntilFifthAttempt ==
    /\ attempts <= MaxAttempts
    /\ (CallEnded /\ lastGot \in Retryable) =>
           (attempts = MaxAttempts /\ result = "RequestException")

\* C3 as claimed: a call whose attempt got a 4xx without captcha ends at once
\* with an error; it never returns that response.
C3_ClientErrorFails ==
    (CallEnded /\ lastGot = "c4xx") =>
        /\ result # "returned"
        /\ firstGot = "c4xx" => attempts = 1

\* C4: when the first response of a call is a captcha and the second is
\* clean, the call is over after these two attempts, it returned the
\* response, and in between the session was closed once and rebuilt with one
\* handshake GET.
C4_CaptchaThenClean ==
    (firstGot = "captcha" /\ attempts = 2 /\ lastGot = "ok") =>
        /\ pc = "idle"
        /\ result = "returned"
        /\ closes = 1
        /\ handshakes = 1
        /\ session = "ready"

\* C4 witness: a call that got a captcha, then a clean response
C4_Witness ==
    /\ firstGot = "captcha"
    /\ attempts = 2
    /\ lastGot = "ok"
    /\ result = "returned"
    /\ handshakes = 1

MaxRuns == 2         \* runs of scrape_all_properties on one instance
MaxPages == 3        \* largest page count the search response announces
MaxFields == 2       \* most hdnImov inputs in a search response
MaxLabels == 2       \* most <label> elements in a neighborhood response
MaxPerPage == 1      \* most records extracted from one fragment

\* how a call of _post can end and the session it leaves behind, made after
\* a call of _init_session (init) or without one, on session s
PostResults(s, init) ==
    LET pres == IF init
                THEN {InitSessionOn(s, h) : h \in HandshakeOutcomes}
                ELSE {[session |-> s, requests |-> 0, raised |-> FALSE]}
        Body(s1) ==
            IF ~SessionAsserted(s1)
            THEN {[result |-> "AssertionError", session |-> s1,
                   posted |-> FALSE]}
            ELSE {[result |-> "returned", session |-> "ready",
                   posted |-> TRUE],
                  [result |-> "RequestException", session |-> "ready",
                   posted |-> TRUE],
                  [result |-> "RequestException", session |-> "none",
                   posted |-> TRUE],
                  [result |-> "AssertionError", session |-> "none",
                   posted |-> TRUE]}
    IN  UNION {IF pre.raised
               THEN {[result |-> "RequestException", session |-> pre.session,
                      posted |-> FALSE]}
               ELSE Body(pre.session) : pre \in pres}

\* code points of the characters normalized labels are made of
Ord(c) ==
    CASE c = " " -> 32
      [] c = "A" -> 65
      [] c = "C" -> 67
      [] c = "E" -> 69
      [] c = "I" -> 73
      [] c = "L" -> 76
      [] c = "N" -> 78
      [] c = "O" -> 79
      [] c = "S" -> 83

\* Python's a < b on strings
RECURSIVE LexLess(_, _)
LexLess(a, b) ==
    IF a = <<>> THEN b # <<>>
    ELSE IF b = <<>> THEN FALSE
    ELSE IF Head(a) # Head(b) THEN Ord(Head(a)) < Ord(Head(b))
    ELSE LexLess(Tail(a), Tail(b))

\* sorted(list(set(...)))
RECURSIVE SortedList(_)
SortedList(S) ==
    IF S = {} THEN <<>>
    ELSE LET m == CHOOSE x \in S : \A y \in S \ {x} : LexLess(x, y)
         IN  <<m>> \o SortedList(S \ {m})

\* the filter of the label loop of _obter_bairros
KeepBairro(t) == t # <<>> /\ Len(t) > 2 /\ t # Upper(Selecione)

\* _obter_bairros from the response on: the list handed to the parser
ObterBairros(labels) ==
    SortedList({t \in {Norm(labels[i]) : i \in 1..Len(labels)} : KeepBairro(t)})

\* update_bairros_disponiveis: `bairros_list or []`
UpdateBairrosDisponiveis(bairros_list) == bairros_list

\* the value attribute of a hidden field: no such element, "", a text that
\* int() rejects, or the digits of n
FieldValues(ints) ==
    {<<"absent", 0>>, <<"empty", 0>>, <<"text", 0>>}
        \cup {<<"int", n>> : n \in ints}

HiddenIntNoDefault(v, default) == IF v[1] = "int" THEN v[2] ELSE 0

\* `if elem and elem.get('value'): x = int(elem.get('value'))` under
\* try/except pass: the default stays unless the value is an integer
HiddenInt(v, default) == IF v[1] = "int" THEN v[2] ELSE default

\* the loop over the hdnImov inputs, each <<suffix of the id, value>>: a
\* suffix that int() rejects is skipped, a later input replaces an earlier one
IdsPorPagina(imov) ==
    LET ok == {i \in 1..Len(imov) : imov[i][1][1] = "int"}
        idxs == {imov[i][1][2] : i \in ok}
    IN  [p \in idxs |->
            Strip(imov[SetMax({i \in ok : imov[i][1][2] = p})][2])]

\* _extrair_ids_e_paginacao
ExtrairIdsEPaginacao(fields) ==
    [ids_por_pagina |-> IdsPorPagina(fields.imov),
     total_paginas |-> HiddenInt(fields.qtdPag, 1),
     total_registros |-> HiddenInt(fields.qtdReg, 0)]

\* dict.get(k, default), and a dict.get that finds no key
DictGetNothing(d, k, default) == default
DictGet(d, k, default) == IF k \in DOMAIN d THEN d[k] ELSE default

\* the fields of every client variable but the session
clientRest ==
    <<pc, cur, limiter, sent, attempts, firstGot, lastGot, closes,
      handshakes, sentOn, result, callsLeft>>

\* the locals of a run
runLocals ==
    <<cod_cidade, ids_por_pagina, total_paginas, total_registros, page_num,
      all_properties>>

\* list.extend, and an extend that puts the new elements first
ExtendFront(list, new) == new \o list
Extend(list, new) == list \o new

\* an exception that would let the run go on with its next step
FailGoesOn(step, err) ==
    /\ ppc' = IF step = "city" THEN "bairros"
              ELSE IF step = "search" THEN "page" ELSE "idle"
    /\ runOut' = err
    /\ failedAt' = step

\* an exception leaves scrape_all_properties
Fail(step, err) ==
    /\ ppc' = "idle"
    /\ runOut' = err
    /\ failedAt' = step

\* a request of the run to an endpoint, when the call got as far as _post
Logged(r, entry) == IF r.posted THEN Append(log, entry) ELSE log

\* scrape_all_properties is called: its first line is _init_session()
StartRun(h) ==
    /\ UNCHANGED parserVars
    /\ ppc = "idle"
    /\ runsLeft > 0
    /\ runsLeft' = runsLeft - 1
    /\ LET pre == InitSessionOn(session, h)
       IN  /\ session' = pre.session
           /\ IF pre.raised
              THEN Fail("init", "RequestException")
              ELSE ppc' = "city" /\ runOut' = "none" /\ failedAt' = "-"
    /\ bairrosReq' = "-"
    /\ cod_cidade' = ""
    /\ ids_por_pagina' = <<>>
    /\ total_paginas' = 1
    /\ total_registros' = 0
    /\ page_num' = 1
    /\ all_properties' = <<>>
    /\ log' = <<>>
    /\ matches' = <<>>
    /\ cityOut' = NoCityOut
    /\ UNCHANGED <<estado, cidade, clientRest, bairros_disponiveis,
                   scraped_properties>>

\* cod_cidade = self._obter_codigo_cidade(...): any exception ends the run
CityStep(r, ms) ==
    /\ UNCHANGED parserVars
    /\ ppc = "city"
    /\ r \in PostResults(session, TRUE)
    /\ session' = r.session
    /\ log' = Logged(r, <<"cidades", 0>>)
    /\ IF r.result = "returned"
       THEN LET out == ObterCodigoCidade(estado, cidade, ms)
            IN  /\ matches' = ms
                /\ cityOut' = out
                /\ IF out.kind = "ValueError"
                   THEN Fail("city", "ValueError") /\ UNCHANGED cod_cidade
                   ELSE /\ cod_cidade' = out.code
                        /\ ppc' = "bairros"
                        /\ UNCHANGED <<runOut, failedAt>>
       ELSE /\ Fail("city", r.result)
            /\ UNCHANGED <<matches, cityOut, cod_cidade>>
    /\ UNCHANGED <<estado, cidade, clientRest, runsLeft, bairros_disponiveis,
                   bairrosReq, ids_por_pagina, total_paginas, total_registros,
                   page_num, all_properties, scraped_properties>>

\* try: self._obter_bairros(...) except Exception: a warning, nothing else;
\* the parser is handed a list only when the request returned
BairrosStep(r, labels) ==
    /\ UNCHANGED parserVars
    /\ ppc = "bairros"
    /\ r \in PostResults(session, TRUE)
    /\ session' = r.session
    /\ log' = Logged(r, <<"bairros", 0>>)
    /\ IF r.result = "returned"
       THEN /\ bairros_disponiveis' =
                   UpdateBairrosDisponiveis(ObterBairros(labels))
            /\ bairrosReq' = "loaded"
       ELSE /\ bairrosReq' = "failed"
            /\ UNCHANGED bairros_disponiveis
    /\ ppc' = "search"
    /\ UNCHANGED <<cityVars, clientRest, runsLeft, runOut, failedAt,
                   runLocals, scraped_properties>>

\* html_inicio = self._iniciar_pesquisa(...), _extrair_ids_e_paginacao and
\* all_properties = []
SearchStep(r, fields) ==
    /\ UNCHANGED parserVars
    /\ ppc = "search"
    /\ r \in PostResults(session, TRUE)
    /\ session' = r.session
    /\ log' = Logged(r, <<"pesquisa", 0>>)
    /\ IF r.result = "returned"
       THEN LET m == ExtrairIdsEPaginacao(fields)
            IN  /\ ids_por_pagina' = m.ids_por_pagina
                /\ total_paginas' = m.total_paginas
                /\ total_registros' = m.total_registros
                /\ page_num' = 1
                /\ all_properties' = <<>>
                /\ ppc' = "page"
                /\ UNCHANGED <<runOut, failedAt>>
       ELSE /\ Fail("search", r.result)
            /\ UNCHANGED <<ids_por_pagina, total_paginas, total_registros,
                           page_num, all_properties>>
    /\ UNCHANGED <<cityVars, clientRest, runsLeft, bairros_disponiveis,
                   bairrosReq, cod_cidade, scraped_properties>>

\* one turn of the page loop whose batch is missing or empty: continue
SkipPage ==
    /\ UNCHANGED parserVars
    /\ ppc = "page"
    /\ page_num <= total_paginas
    /\ DictGet(ids_por_pagina, page_num, <<>>) = <<>>
    /\ page_num' = page_num + 1
    /\ UNCHANGED <<cityVars, clientVars, ppc, runsLeft, runOut, failedAt,
                   bairros_disponiveis, bairrosReq, cod_cidade,
                   ids_por_pagina, total_paginas, total_registros,
                   all_properties, scraped_properties, log>>

\* a page loop that hands the records gathered so far to the instance when
\* a fetch fails
FetchPageStoring(r, n) ==
    /\ UNCHANGED parserVars
    /\ ppc = "page"
    /\ page_num <= total_paginas
    /\ DictGet(ids_por_pagina, page_num, <<>>) # <<>>
    /\ r \in PostResults(session, FALSE)
    /\ session' = r.session
    /\ log' = Logged(r, <<"lista", page_num>>)
    /\ IF r.result = "returned"
       THEN /\ all_properties' =
                   Extend(all_properties, [k \in 1..n |-> <<page_num, k>>])
            /\ page_num' = page_num + 1
            /\ UNCHANGED <<ppc, runOut, failedAt, scraped_properties>>
       ELSE /\ Fail("page", r.result)
            /\ scraped_properties' = all_properties
            /\ UNCHANGED <<all_properties, page_num>>
    /\ UNCHANGED <<cityVars, clientRest, runsLeft, bairros_disponiveis,
                   bairrosReq, cod_cidade, ids_por_pagina, total_paginas,
                   total_registros>>

\* one turn of the page loop with a batch: _carregar_pagina_fragmento (no
\* _init_session, no try), extraction of n records, extend
FetchPage(r, n) ==
    /\ UNCHANGED parserVars
    /\ ppc = "page"
    /\ page_num <= total_paginas
    /\ DictGet(ids_por_pagina, page_num, <<>>) # <<>>
    /\ r \in PostResults(session, FALSE)
    /\ session' = r.session
    /\ log' = Logged(r, <<"lista", page_num>>)
    /\ IF r.result = "returned"
       THEN /\ all_properties' =
                   Extend(all_properties, [k \in 1..n |-> <<page_num, k>>])
            /\ page_num' = page_num + 1
            /\ UNCHANGED <<ppc, runOut, failedAt>>
       ELSE /\ Fail("page", r.result)
            /\ UNCHANGED <<all_properties, page_num>>
    /\ UNCHANGED <<cityVars, clientRest, runsLeft, bairros_disponiveis,
                   bairrosReq, cod_cidade, ids_por_pagina, total_paginas,
                   total_registros, scraped_properties>>

\* the loop is over: self.scraped_properties = all_properties; return
FinishRun ==
    /\ UNCHANGED parserVars
    /\ ppc = "page"
    /\ page_num > total_paginas
    /\ scraped_properties' = all_properties
    /\ ppc' = "idle"
    /\ runOut' = "done"
    /\ UNCHANGED <<cityVars, clientVars, runsLeft, failedAt,
                   bairros_disponiveis, bairrosReq, runLocals, log>>

(***************************************************************************)
(* SpecPipe: MaxRuns runs of scrape_all_properties on one instance.        *)
(***************************************************************************)
\* responses of carregaListaCidades.asp
PipeOptionLists ==
    {<<>>, <<<<"1", SAO_PAULO>>>>, <<<<"1", <<"a">>>>, <<"2", Selecione>>>>}

\* responses of carregaListaBairros.asp: the texts of its labels
LabelTexts ==
    {<<"a", "a", "a">>, <<"a", " ", " ", "a">>, <<"a", "a">>, Selecione}

LabelLists == UNION {[1..n -> LabelTexts] : n \in 0..MaxLabels}

\* responses of carregaPesquisaImoveis.asp: its hidden fields
ImovInputs ==
    ({<<"text", 0>>} \cup {<<"int", p>> : p \in 1..(MaxPages + 1)})
        \X {<<" ">>, <<"1">>}

SearchResponses ==
    [qtdPag : FieldValues(0..MaxPages),
     qtdReg : {<<"absent", 0>>, <<"int", 1>>},
     imov : UNION {[1..n -> ImovInputs] : n \in 0..MaxFields}]

InitPipe ==
    /\ estado = "SP"
    /\ cidade = <<"a", "a">>
    /\ matches = <<>>
    /\ cityOut = NoCityOut
    /\ ClientIdle
    /\ callsLeft = 0
    /\ PipeIdle
    /\ ParserIdle
    /\ runsLeft = MaxRuns

StartRunAny == \E h \in HandshakeOutcomes : StartRun(h)

CityStepAny ==
    /\ ppc = "city"
    /\ \E r \in PostResults(session, TRUE), ms \in PipeOptionLists :
           CityStep(r, ms)

BairrosStepAny ==
    /\ ppc = "bairros"
    /\ \E r \in PostResults(session, TRUE), labels \in LabelLists :
           BairrosStep(r, labels)

SearchStepAny ==
    /\ ppc = "search"
    /\ \E r \in PostResults(session, TRUE), fields \in SearchResponses :
           SearchStep(r, fields)

FetchPageAny ==
    /\ ppc = "page"
    /\ \E r \in PostResults(session, FALSE), n \in 0..MaxPerPage :
           FetchPage(r, n)

NextPipe ==
    \/ StartRunAny
    \/ CityStepAny
    \/ BairrosStepAny
    \/ SearchStepAny
    \/ SkipPage
    \/ FetchPageAny
    \/ FinishRun

SpecPipe == InitPipe /\ [][NextPipe]_vars

\* every ending of a call in the HTTP layer is among the endings the pipeline
\* draws from (an invariant of SpecClient)
PostResultsCoverClient ==
    CallEnded =>
        \E s \in {"none", "ready"}, init \in BOOLEAN :
            \E r \in PostResults(s, init) :
                r.result = result /\ r.session = session

(***************************************************************************)
(* Claims about the pipeline (checked under SpecPipe).                     *)
(***************************************************************************)
\* C10 as claimed: a failed neighborhood request never ends the run, and the
\* records a run extracts after its neighborhood request failed are extracted
\* with an empty neighborhood list in the parser, whatever an earlier run of
\* the same instance loaded.
C10_FailedBairrosMeansEmptySet ==
    /\ failedAt # "bairros"
    /\ (bairrosReq = "failed" /\ all_properties # <<>>) =>
           bairros_disponiveis = <<>>

(***************************************************************************)
(* The parser: detect_bairro_from_endereco and detect_bairro_by_patterns.  *)
(***************************************************************************)
MaxAddressLen == 3   \* longest generated address
MaxNames == 2        \* most names in the parser's neighborhood list
MaxDetections == 2   \* detections run on one address and one list

\* str.find: the first position where sub starts in s, 0 when there is none
Find(s, sub) ==
    LET at == {i \in 1..(Len(s) - Len(sub) + 1) :
                  SubSeq(s, i, i + Len(sub) - 1) = sub}
    IN  IF at = {} THEN 0 ELSE SetMin(at)

\* str.split(sep)
RECURSIVE SplitOn(_, _)
SplitOn(s, sep) ==
    LET i == Find(s, sep)
    IN  IF i = 0 THEN <<s>>
        ELSE <<SubSeq(s, 1, i - 1)>>
                 \o SplitOn(SubSeq(s, i + Len(sep), Len(s)), sep)

\* str.isalpha() on the characters the model uses
IsAlpha(s) ==
    /\ s # <<>>
    /\ \A i \in 1..Len(s) : s[i] \notin {" ", ",", "-", "1"}

VILA == <<"V", "I", "L", "A", " ">>
CIDADE == <<"C", "I", "D", "A", "D", "E", " ">>
JARDIM == <<"J", "A", "R", "D", "I", "M", " ">>
PARQUE == <<"P", "A", "R", "Q", "U", "E", " ">>
CONJUNTO == <<"C", "O", "N", "J", "U", "N", "T", "O", " ">>
prefixos_bairro == <<VILA, CIDADE, JARDIM, PARQUE, CONJUNTO>>

\* pattern 3: the text from a prefix up to the next "," or " - "
RestText(endereco_upper, prefixo) ==
    LET from == SubSeq(endereco_upper, Find(endereco_upper, prefixo),
                       Len(endereco_upper))
    IN  SplitOn(SplitOn(from, <<",">>)[1], <<" ", "-", " ">>)[1]

\* detect_bairro_by_patterns
DetectBairroByPatterns(endereco_upper) ==
    LET parts == SplitOn(endereco_upper, <<",">>)
        last_part == Strip(parts[Len(parts)])
        parts_hyphen == SplitOn(endereco_upper, <<" ", "-", " ">>)
        potential_bairro ==
            IF Len(parts_hyphen) >= 2
            THEN Strip(parts_hyphen[Len(parts_hyphen) - 1]) ELSE <<>>
        hit == FirstTrue([k \in 1..Len(prefixos_bairro) |->
                   /\ Contains(endereco_upper, prefixos_bairro[k])
                   /\ Len(RestText(endereco_upper, prefixos_bairro[k]))
                          > Len(prefixos_bairro[k]) + 3])
    IN  IF Len(parts) >= 2 /\ Len(last_part) > 4 /\ IsAlpha(last_part)
        THEN last_part
        ELSE IF Len(parts_hyphen) >= 2 /\ Len(potential_bairro) > 4
                    /\ IsAlpha(potential_bairro)
        THEN potential_bairro
        ELSE IF hit # 0
        THEN Strip(RestText(endereco_upper, prefixos_bairro[hit]))
        ELSE <<>>

\* the list without its k-th element
Without(list, k) ==
    SubSeq(list, 1, k - 1) \o SubSeq(list, k + 1, Len(list))

\* the list in its own order: what the search walks if nothing sorts it
UnsortedList(list) == list

\* sorted(list, key=len, reverse=True): longest first, names of one length
\* in the order the list has them
RECURSIVE SortedByLenDesc(_)
SortedByLenDesc(list) ==
    IF list = <<>> THEN <<>>
    ELSE LET k == SetMin({i \in 1..Len(list) :
                      \A j \in 1..Len(list) : Len(list[j]) <= Len(list[i])})
         IN  <<list[k]>> \o SortedByLenDesc(Without(list, k))

\* detect_bairro_from_endereco with the parser's list `bairros`
DetectBairroFromEndereco(end, bairros) ==
    IF end = <<>> THEN <<>>
    ELSE LET endereco_upper == Upper(end)
             bairros_ordenados == SortedByLenDesc(bairros)
             hit == FirstTrue([k \in 1..Len(bairros_ordenados) |->
                        Contains(endereco_upper, bairros_ordenados[k])])
         IN  IF bairros = <<>> THEN DetectBairroByPatterns(endereco_upper)
             ELSE IF hit # 0 THEN bairros_ordenados[hit]
             ELSE DetectBairroByPatterns(endereco_upper)

\* one call of detect_bairro_from_endereco: it reads the parser's list and
\* leaves it as it is
Detect ==
    /\ detections < MaxDetections
    /\ detections' = detections + 1
    /\ bairro' = DetectBairroFromEndereco(endereco, bairros_disponiveis)
    /\ firstBairro' = IF detections = 0 THEN bairro' ELSE firstBairro
    /\ UNCHANGED <<endereco, pageVars, cityVars, clientVars, ppc, runsLeft,
                   runOut, failedAt, bairros_disponiveis, bairrosReq, cod_cidade,
                   ids_por_pagina, total_paginas, total_registros, page_num,
                   all_properties, scraped_properties, log>>

(***************************************************************************)
(* SpecBairro: detection on every bounded address and neighborhood list.   *)
(***************************************************************************)
AddressChars == {"a", "A", " "}

RECURSIVE AddressesUpTo(_)
AddressesUpTo(n) ==
    IF n = 0 THEN {<<>>}
    ELSE LET shorter == AddressesUpTo(n - 1)
         IN  shorter \cup {Append(a, c) : a \in shorter, c \in AddressChars}

\* addresses the patterns recognise, beside the generated ones
PatternAddresses ==
    {<<"a", ",", " ", "a", "a", "a", "a", "a">>,
     <<"a", "a", "a", "a", "a", " ", "-", " ", "A">>,
     <<"a", " ">> \o VILA \o <<"a", "a", "a", "a", ",", "1">>,
     VILA \o <<"a">>}

Addresses == AddressesUpTo(MaxAddressLen) \cup PatternAddresses

BairroNames ==
    {<<"A">>, <<"A", "A">>, <<"A", " ", "A">>, <<"a">>, <<"A", "A", "A", "A">>}

BairroLists == UNION {[1..n -> BairroNames] : n \in 0..MaxNames}

InitBairro ==
    /\ estado = "SP"
    /\ cidade = SAO_PAULO
    /\ matches = <<>>
    /\ cityOut = NoCityOut
    /\ ClientIdle
    /\ callsLeft = 0
    /\ NoRunYet
    /\ scraped_properties = <<>>
    /\ runsLeft = 0
    /\ bairros_disponiveis \in BairroLists
    /\ endereco \in Addresses
    /\ bairro = <<>>
    /\ firstBairro = <<>>
    /\ detections = 0
    /\ html_content = NoPage
    /\ properties = <<>>
    /\ extracted = FALSE

NextBairro == Detect

SpecBairro == InitBairro /\ [][NextBairro]_vars

\* the names of the parser's list that occur in the uppercased address
NamesInAddress ==
    {bairros_disponiveis[i] : i \in
        {j \in 1..Len(bairros_disponiveis) :
            Contains(Upper(endereco), bairros_disponiveis[j])}}

\* C11: every detection on the same address and list returns what the first
\* one returned, and when names of the list occur in the uppercased address
\* the result is one of them and none of them is longer.
C11_LongestNameEveryTime ==
    detections >= 1 =>
        /\ bairro = firstBairro
        /\ (endereco # <<>> /\ NamesInAddress # {}) =>
               /\ bairro \in NamesInAddress
               /\ \A n \in NamesInAddress : Len(n) <= Len(bairro)

\* C11 witness: a second detection, on an address that holds a name of the
\* list and a shorter name nested in it
C11_Witness ==
    /\ detections = 2
    /\ <<"A">> \in NamesInAddress
    /\ bairro = <<"A", "A">>
    /\ bairros_disponiveis[1] = <<"A">>

(***************************************************************************)
(* The parser: extract_property_from_caixa_item.                           *)
(***************************************************************************)
\* str.lower() on the characters the model uses
LowerChar(c) ==
    CASE c = "A" -> "a"
      [] c = "B" -> "b"
      [] c = "C" -> "c"
      [] c = "D" -> "d"
      [] c = "E" -> "e"
      [] c = "F" -> "f"
      [] c = "G" -> "g"
      [] c = "H" -> "h"
      [] c = "I" -> "i"
      [] c = "J" -> "j"
      [] c = "K" -> "k"
      [] c = "L" -> "l"
      [] c = "M" -> "m"
      [] c = "N" -> "n"
      [] c = "O" -> "o"
      [] c = "P" -> "p"
      [] c = "Q" -> "q"
      [] c = "R" -> "r"
      [] c = "S" -> "s"
      [] c = "T" -> "t"
      [] c = "U" -> "u"
      [] c = "V" -> "v"
      [] c = "W" -> "w"
      [] c = "X" -> "x"
      [] c = "Y" -> "y"
      [] c = "Z" -> "z"
      [] c = "Ú" -> "ú"
      [] c = "Ó" -> "ó"
      [] c = "Ç" -> "ç"
      [] OTHER -> c

Lower(s) == [i \in 1..Len(s) |-> LowerChar(s[i])]

\* str.startswith
StartsWith(s, prefix) ==
    Len(s) >= Len(prefix) /\ SubSeq(s, 1, Len(prefix)) = prefix

\* the boilerplate the title filter names
TempoRestante ==
    <<"t", "e", "m", "p", "o", " ", "r", "e", "s", "t", "a", "n", "t", "e">>
NumeroDoItem ==
    <<"n", "ú", "m", "e", "r", "o", " ", "d", "o", " ", "i", "t", "e", "m">>
Despesas ==
    <<"d", "e", "s", "p", "e", "s", "a", "s">>

\* texts of <strong> and <a> elements of a listing item
TextoTempo ==
    <<"T", "e", "m", "p", "o", " ", "r", "e", "s", "t", "a", "n", "t", "e",
      ":", " ", "2", " ", "d", "i", "a", "s">>
TextoNumero ==
    <<"N", "ú", "m", "e", "r", "o", " ", "d", "o", " ", "i", "t", "e", "m",
      ":", " ", "1", "2">>
TextoDespesas ==
    <<"D", "e", "s", "p", "e", "s", "a", "s", " ", "d", "o", " ", "i", "m",
      "ó", "v", "e", "l">>
TextoCurto ==
    <<"C", "a", "s", "a">>
TextoTitulo ==
    <<" ", "A", "p", "a", "r", "t", "a", "m", "e", "n", "t", "o", " ", "1",
      " ">>
TextoComValor ==
    <<"A", "p", "a", "r", "t", "a", "m", "e", "n", "t", "o", " ", "2", " ",
      "|", " ", "R", "$", " ", "1">>
TextoSoValor ==
    <<"|", " ", "R", "$", " ", "1", "2", "3", "4", "5", "6", "7", "8">>
TextoDoisValores ==
    <<"A", "p", "a", "r", "t", "a", "m", "e", "n", "t", "o", " ", "3", " ",
      "|", " ", "R", "$", " ", "1", " ", "|", " ", "R", "$", " ", "2">>
TextoValorNoTitulo ==
    <<"C", "a", "s", "a", " ", "R", "$", " ", "1", "0", "0", " ", "|", " ",
      "C", "e", "n", "t", "r", "o">>

\* the filter of the <strong> loop
IsTitleText(text) ==
    /\ text # <<>>
    /\ ~StartsWith(Lower(text), TempoRestante)
    /\ ~StartsWith(Lower(text), NumeroDoItem)
    /\ ~StartsWith(Lower(text), Despesas)
    /\ Len(text) > 10

\* the test that sends the search on to the <a> elements
IsInvalidTitle(title_text) ==
    \/ StartsWith(Lower(title_text), TempoRestante)
    \/ StartsWith(Lower(title_text), NumeroDoItem)

\* the filter of the <a> loop
IsLinkTitle(link_text) ==
    /\ link_text # <<>>
    /\ Len(link_text) > 10
    /\ ~StartsWith(Lower(link_text), TempoRestante)

\* get_text(strip=True) of each element of a list
StrippedTexts(elements) == [i \in 1..Len(elements) |-> Strip(elements[i])]

\* title_text when the item has a <strong>: the first <strong> that passes
\* the filter, else the first <strong>; when that text is boilerplate, the
\* first <a> that passes the filter of the links, if there is one
TitleText(item) ==
    LET strongs == StrippedTexts(item.strongs)
        links == StrippedTexts(item.links)
        k == FirstTrue([i \in 1..Len(strongs) |-> IsTitleText(strongs[i])])
        title_element == IF k # 0 THEN k ELSE 1
        l == FirstTrue([i \in 1..Len(links) |-> IsLinkTitle(links[i])])
    IN  IF IsInvalidTitle(strongs[title_element]) /\ l # 0
        THEN links[l]
        ELSE strongs[title_element]

\* the title and the price taken from title_text
TituloEValor(title_text) ==
    LET parts == SplitOn(title_text, <<"|">>)
    IN  IF Contains(title_text, <<"|">>)
        THEN [titulo |-> Strip(parts[1]),
              valor |-> IF Contains(title_text, <<"R", "$">>)
                        THEN Strip(parts[Len(parts)]) ELSE <<>>]
        ELSE [titulo |-> title_text, valor |-> <<>>]

\* property_data as the function leaves it: item.endereco stands for the
\* address _extract_endereco recovers from the text of the item
PropertyData(item, bairros) ==
    LET tv == IF item.strongs = <<>> THEN [titulo |-> <<>>, valor |-> <<>>]
              ELSE TituloEValor(TitleText(item))
        found == IF item.endereco = <<>> THEN <<>>
                 ELSE DetectBairroFromEndereco(item.endereco, bairros)
    IN  [titulo |-> tv.titulo, valor |-> tv.valor,
         endereco |-> item.endereco, bairro |-> found]

\* extract_property_from_caixa_item: the records it returns for one item,
\* none when it returns None
HasTitulo(property_data) == property_data.titulo # <<>>

ExtractPropertyFromCaixaItem(item, bairros) ==
    LET property_data == PropertyData(item, bairros)
    IN  IF HasTitulo(property_data) THEN <<property_data>> ELSE <<>>

(***************************************************************************)
(* The parser: the fallback on tables and extract_properties_from_page.    *)
(***************************************************************************)
\* the keywords that make a table row look like a property
PropertyIndicators ==
    <<<<"r", "$">>, <<"r", "e", "a", "l">>, <<"r", "e", "a", "i", "s">>,
      <<"v", "a", "l", "o", "r">>, <<"p", "r", "e", "ç", "o">>,
      <<"r", "u", "a">>, <<"a", "v", " ">>,
      <<"a", "v", "e", "n", "i", "d", "a">>,
      <<"a", "l", "a", "m", "e", "d", "a">>,
      <<"t", "r", "a", "v", "e", "s", "s", "a">>, <<"m", "²">>,
      <<"m", "2">>, <<"m", "e", "t", "r", "o">>,
      <<"a", "p", "a", "r", "t", "a", "m", "e", "n", "t", "o">>,
      <<"c", "a", "s", "a">>, <<"i", "m", "o", "v", "e", "l">>,
      <<"i", "m", "ó", "v", "e", "l">>, <<"d", "o", "r", "m">>,
      <<"q", "u", "a", "r", "t", "o">>, <<"q", "t", "o">>>>

EnderecoWords ==
    <<<<"r", "u", "a">>, <<"a", "v", " ">>,
      <<"a", "v", "e", "n", "i", "d", "a">>,
      <<"a", "l", "a", "m", "e", "d", "a">>,
      <<"t", "r", "a", "v", "e", "s", "s", "a">>>>
QuartoWords ==
    <<<<"q", "u", "a", "r", "t", "o">>, <<"d", "o", "r", "m">>,
      <<"q", "t", "o">>>>
AreaWords ==
    <<<<"m", "²">>, <<"m", "2">>>>

\* any(word in text for word in words)
AnyIn(text, words) == \E k \in 1..Len(words) : Contains(text, words[k])

\* ' '.join(texts) and ' | '.join(texts)
RECURSIVE Join(_, _)
Join(texts, sep) ==
    IF texts = <<>> THEN <<>>
    ELSE IF Len(texts) = 1 THEN texts[1]
    ELSE texts[1] \o sep \o Join(Tail(texts), sep)

\* the last cell a test holds for, stripped; empty when there is none
LastCell(row_cells, hits) ==
    IF hits = {} THEN <<>> ELSE Strip(row_cells[SetMax(hits)])

\* parse_property_from_row: a dict that has no key 'titulo'
ParsePropertyFromRow(row_cells) ==
    LET cells == 1..Len(row_cells)
        low == [i \in cells |-> Strip(Lower(row_cells[i]))]
    IN  [codigo |-> Strip(row_cells[1]),
         endereco |-> LastCell(row_cells,
                               {i \in cells : AnyIn(low[i], EnderecoWords)}),
         bairro |-> <<>>,
         modalidade |-> <<>>,
         garagem |-> <<>>,
         valor |-> LastCell(row_cells,
                            {i \in cells : Contains(low[i], <<"r", "$">>)}),
         area |-> LastCell(row_cells,
                           {i \in cells : AnyIn(low[i], AreaWords)}),
         quartos |-> LastCell(row_cells,
                              {i \in cells : AnyIn(low[i], QuartoWords)}),
         raw_data |-> Join(row_cells, <<" ", "|", " ">>)]

\* the rows of one table that become records
RECURSIVE RowsToProperties(_)
RowsToProperties(rows) ==
    IF rows = <<>> THEN <<>>
    ELSE LET cell_texts == StrippedTexts(Head(rows))
             row_text == Lower(Join(cell_texts, <<" ">>))
             rest == RowsToProperties(Tail(rows))
         IN  IF Len(cell_texts) >= 2
                    /\ AnyIn(row_text, PropertyIndicators)
                    /\ Len(cell_texts) >= 3
             THEN <<ParsePropertyFromRow(cell_texts)>> \o rest
             ELSE rest

\* _extract_from_fallback_methods: the rows of every table, in order
RECURSIVE ExtractFromFallbackMethods(_)
ExtractFromFallbackMethods(tables) ==
    IF tables = <<>> THEN <<>>
    ELSE RowsToProperties(Head(tables))
             \o ExtractFromFallbackMethods(Tail(tables))

\* the records of the items of the results section, in order
RECURSIVE ItemsToProperties(_, _)
ItemsToProperties(items, bairros) ==
    IF items = <<>> THEN <<>>
    ELSE ExtractPropertyFromCaixaItem(Head(items), bairros)
             \o ItemsToProperties(Tail(items), bairros)

\* extract_properties_from_page on a page with or without the results
\* section, with or without the text of the search form
ExtractPropertiesFromPage(html, bairros) ==
    IF html.results THEN ItemsToProperties(html.items, bairros)
    ELSE IF html.form THEN <<>>
    ELSE ExtractFromFallbackMethods(html.tables)

\* extract_properties_from_page is called on html_content; the parser's
\* neighborhood list is read, nothing but the returned list is written
ExtractPage ==
    /\ ~extracted
    /\ extracted' = TRUE
    /\ properties' = ExtractPropertiesFromPage(html_content, bairros_disponiveis)
    /\ UNCHANGED <<html_content, detectVars, cityVars, clientVars, pipeVars>>

(***************************************************************************)
(* SpecExtract: extraction on bounded pages.                               *)
(***************************************************************************)
MaxStrongs == 2      \* most <strong> elements in an item
MaxLinks == 1        \* most <a> elements in an item
MaxCells == 3        \* most cells in a table row
MaxExtra == 1        \* most items (rows) before the generated item (row)

StrongTexts ==
    {<<>>, TextoTempo, TextoNumero, TextoDespesas, TextoCurto, TextoTitulo,
     TextoComValor, TextoSoValor}

LinkTexts == {TextoTempo, TextoNumero, TextoCurto, TextoTitulo}

RuaA == <<"R", "u", "a", " ", "A">>

Items ==
    [strongs : UNION {[1..n -> StrongTexts] : n \in 0..MaxStrongs},
     links : UNION {[1..n -> LinkTexts] : n \in 0..MaxLinks},
     endereco : {<<>>, RuaA}]

\* items whose only <strong> text has a '|' and more
BarItems ==
    [strongs : {<<TextoDoisValores>>, <<TextoValorNoTitulo>>},
     links : {<<>>},
     endereco : {<<>>, RuaA}]

\* an item with a title and an item with none
PlainItems ==
    {[strongs |-> <<TextoTitulo>>, links |-> <<>>, endereco |-> RuaA],
     [strongs |-> <<>>, links |-> <<TextoTitulo>>, endereco |-> <<>>]}

CellTexts == {<<"1">>, <<"R", "$", " ", "1">>, RuaA, <<" ">>}

Rows == UNION {[1..n -> CellTexts] : n \in 0..MaxCells}

PlainRows == {<<<<"1">>, RuaA, <<"R", "$", " ", "1">>>>}

\* pages with the results section
ResultPages ==
    {[results |-> TRUE, form |-> FALSE, items |-> <<>>, tables |-> <<>>]}
    \cup
    {[results |-> TRUE, form |-> FALSE, items |-> pre \o <<it>>,
      tables |-> <<>>] :
        pre \in UNION {[1..n -> PlainItems] : n \in 0..MaxExtra},
        it \in Items \cup BarItems}

\* pages without it: the search form, or tables
OtherPages ==
    {[results |-> FALSE, form |-> f, items |-> <<>>, tables |-> <<>>] :
        f \in BOOLEAN}
    \cup
    {[results |-> FALSE, form |-> f, items |-> <<>>,
      tables |-> lead \o <<pre \o <<row>>>>] :
        f \in BOOLEAN,
        lead \in {<<>>, <<<<CHOOSE r \in PlainRows : TRUE>>>>},
        pre \in UNION {[1..n -> PlainRows] : n \in 0..MaxExtra},
        row \in Rows}

Pages == ResultPages \cup OtherPages

InitExtract ==
    /\ estado = "SP"
    /\ cidade = SAO_PAULO
    /\ matches = <<>>
    /\ cityOut = NoCityOut
    /\ ClientIdle
    /\ callsLeft = 0
    /\ NoRunYet
    /\ scraped_properties = <<>>
    /\ runsLeft = 0
    /\ bairros_disponiveis \in {<<>>, <<<<"R", "U", "A">>, <<"A">>>>}
    /\ endereco = <<>>
    /\ bairro = <<>>
    /\ firstBairro = <<>>
    /\ detections = 0
    /\ html_content \in Pages
    /\ properties = <<>>
    /\ extracted = FALSE

NextExtract == ExtractPage

SpecExtract == InitExtract /\ [][NextExtract]_vars

(***************************************************************************)
(* SpecFrag: the page loop on the content of the fragments. The response   *)
(* of carregaListaImoveis.asp is the innerHTML of the results section: the *)
(* listing items, and whatever else the server sends (tables, the text of  *)
(* the search form).                                                       *)
(***************************************************************************)
\* a fragment handed to the extractor as it came
UnwrappedHtml(frag) ==
    [results |-> FALSE, form |-> frag.form, items |-> <<>>,
     tables |-> frag.tables]

\* wrapped_html = f"<div id='listaimoveispaginacao'>{frag}</div>": the page
\* has the results section and the items of the fragment are inside it
WrappedHtml(frag) ==
    [results |-> TRUE, form |-> frag.form, items |-> frag.items,
     tables |-> frag.tables]

\* one turn of the page loop with a batch: the fragment is fetched, wrapped
\* and given to extract_properties_from_page, its records are appended
FetchAndExtract(r, frag) ==
    /\ ppc = "page"
    /\ page_num <= total_paginas
    /\ DictGet(ids_por_pagina, page_num, <<>>) # <<>>
    /\ r \in PostResults(session, FALSE)
    /\ session' = r.session
    /\ log' = Logged(r, <<"lista", page_num>>)
    /\ IF r.result = "returned"
       THEN /\ html_content' = WrappedHtml(frag)
            /\ properties' = ExtractPropertiesFromPage(html_content',
                                                       bairros_disponiveis)
            /\ extracted' = TRUE
            /\ all_properties' = Extend(all_properties, properties')
            /\ page_num' = page_num + 1
            /\ UNCHANGED <<ppc, runOut, failedAt>>
       ELSE /\ Fail("page", r.result)
            /\ UNCHANGED <<all_properties, page_num, pageVars>>
    /\ UNCHANGED <<detectVars, cityVars, clientRest, runsLeft,
                   bairros_disponiveis, bairrosReq, cod_cidade,
                   ids_por_pagina, total_paginas, total_registros,
                   scraped_properties>>

\* an item with a title, and the record of it
TitledItem == [strongs |-> <<TextoTitulo>>, links |-> <<>>, endereco |-> RuaA]

\* what a fragment may carry besides its items: nothing, a table with a
\* property row, or such a table and the text of the search form
FragExtras ==
    {[form |-> FALSE, tables |-> <<>>],
     [form |-> FALSE, tables |-> <<<<CHOOSE row \in PlainRows : TRUE>>>>],
     [form |-> TRUE, tables |-> <<<<CHOOSE row \in PlainRows : TRUE>>>>]}

\* the listing items of the fragments, their address left out
FragItems == {it \in Items \cup BarItems : it.endereco = <<>>}

\* the run is in its page loop, at its only page or at the second of two
\* with the record of the first gathered
InitFrag ==
    /\ estado = "SP"
    /\ cidade = SAO_PAULO
    /\ matches = <<>>
    /\ cityOut = NoCityOut
    /\ session = "ready"
    /\ pc = "idle"
    /\ cur = "none"
    /\ attempts = 0
    /\ firstGot = "none"
    /\ lastGot = "none"
    /\ closes = 0
    /\ handshakes = 0
    /\ sentOn = "-"
    /\ result = "none"
    /\ limiter = [k \in Kinds |-> [num_calls |-> 0, elapsed |-> 0]]
    /\ sent = [i \in 1..Period |-> 0]
    /\ callsLeft = 0
    /\ runsLeft = 0
    /\ ppc = "page"
    /\ runOut = "none"
    /\ failedAt = "-"
    /\ bairrosReq = "ok"
    /\ cod_cidade = "1"
    /\ bairros_disponiveis = <<<<"R", "U", "A">>, <<"A">>>>
    /\ total_registros = 0
    /\ scraped_properties = <<>>
    /\ \E done \in 0..1 :
           /\ total_paginas = done + 1
           /\ page_num = done + 1
           /\ ids_por_pagina = [p \in 1..(done + 1) |-> <<"1">>]
           /\ log = [p \in 1..done |-> <<"lista", p>>]
           /\ all_properties =
                  IF done = 0 THEN <<>>
                  ELSE ExtractPropertyFromCaixaItem(TitledItem,
                                                    bairros_disponiveis)
    /\ ParserIdle

\* the fragment of a call that returned holds no item or one
FetchAndExtractAny ==
    /\ ppc = "page"
    /\ page_num <= total_paginas
    /\ \E r \in PostResults(session, FALSE) :
           \E x \in IF r.result = "returned" THEN FragExtras
                     ELSE {CHOOSE x \in FragExtras : TRUE},
              items \in IF r.result = "returned"
                        THEN {<<>>} \cup {<<it>> : it \in FragItems}
                        ELSE {<<>>} :
               FetchAndExtract(r, [form |-> x.form, items |-> items,
                                   tables |-> x.tables])

NextFrag ==
    \/ FetchAndExtractAny
    \/ FinishRun

SpecFrag == InitFrag /\ [][NextFrag]_vars

(***************************************************************************)
(* Claims about extraction (checked under SpecExtract).                    *)
(***************************************************************************)
\* dict.get('titulo', '') on a returned record
TituloOf(property_data) ==
    IF "titulo" \in DOMAIN property_data THEN property_data.titulo ELSE <<>>

IsBoilerplate(text) ==
    \/ StartsWith(Lower(text), TempoRestante)
    \/ StartsWith(Lower(text), NumeroDoItem)
    \/ StartsWith(Lower(text), Despesas)

\* C12 as claimed: no record extracted from the items of a results page has
\* a title that starts with 'tempo restante', 'número do item' or
\* 'despesas': such a text is passed over for the next <strong> or <a> text
\* that passes the filter.
C12_NoBoilerplateTitle ==
    (extracted /\ html_content.results) =>
        \A i \in 1..Len(properties) : ~IsBoilerplate(TituloOf(properties[i]))

\* C13 as claimed: every record extract_properties_from_page returns, from
\* the items of the results section or from table rows, has a non-empty
\* title.
C13_EveryRecordTitled ==
    extracted => \A i \in 1..Len(properties) : TituloOf(properties[i]) # <<>>

\* the text left and right of the first '|' of a title text
LeftOfBar(title_text) == SubSeq(title_text, 1, Find(title_text, <<"|">>) - 1)
RightOfBar(title_text) ==
    SubSeq(title_text, Find(title_text, <<"|">>) + 1, Len(title_text))

\* a results page with one item, from which one record was extracted
OneItemOneRecord ==
    /\ extracted
    /\ html_content.results
    /\ Len(html_content.items) = 1
    /\ html_content.items[1].strongs # <<>>
    /\ Len(properties) = 1

\* C22 as claimed: when the title text of an item contains '|', the title
\* of its record is the text left of the first '|', and the price is the
\* whole text right of the first '|' if that right side contains 'R$' and
\* empty if it does not.
C22_PriceRightOfFirstBar ==
    OneItemOneRecord =>
        LET title_text == TitleText(html_content.items[1])
        IN  Contains(title_text, <<"|">>) =>
                /\ properties[1].titulo = Strip(LeftOfBar(title_text))
                /\ properties[1].valor =
                       IF Contains(RightOfBar(title_text), <<"R", "$">>)
                       THEN Strip(RightOfBar(title_text)) ELSE <<>>

(***************************************************************************)
(* Claims about the page loop (checked under SpecPipe).                    *)
(***************************************************************************)
\* the requests of this run to carregaListaImoveis.asp, and their pages
ListaRequests == {i \in 1..Len(log) : log[i][1] = "lista"}
FetchedPages == {log[i][2] : i \in ListaRequests}

\* the pages of the manifest that have an identifier batch
BatchPages ==
    {p \in 1..total_paginas :
        p \in DOMAIN ids_por_pagina /\ ids_por_pagina[p] # <<>>}

RunDone == ppc = "idle" /\ runOut = "done"

\* C14: while the loop runs, the pages fetched so far are the pages before
\* page_num that have a batch: one without a batch was passed with no
\* request and did not end the run; a run that completes has fetched every
\* page of 1..total_paginas that has a batch, and no other.
C14_PagesWithoutBatchSkipped ==
    /\ ppc = "page" => FetchedPages = {p \in BatchPages : p < page_num}
    /\ RunDone => FetchedPages = BatchPages
    /\ failedAt = "page" => page_num \in BatchPages

\* C14 witness: three pages announced, batches for pages 1 and 2 only, the
\* run completed after fetching these two
C14_Witness ==
    /\ RunDone
    /\ total_paginas = 3
    /\ DOMAIN ids_por_pagina = {1, 2}
    /\ FetchedPages = {1, 2}
    /\ page_num = 4

\* C15 as claimed: a fragment is requested only while the records gathered
\* so far are fewer than the total the manifest announces (stated for a
\* manifest that announces a total).
C15_StopsAtTotalRecords ==
    [][(total_registros > 0 /\ ListaRequests' # ListaRequests) =>
           Len(all_properties) < total_registros]_vars

\* C16 as claimed: no run ends with the error of a page fetch; the page
\* counts for zero records and the loop goes on.
C16_PageFailureNotFatal == failedAt # "page"

\* C17 as claimed: when a run fails in the page loop, the records gathered
\* from the pages before are what the instance holds for the caller.
C17_PartialResultsKept ==
    (ppc = "idle" /\ failedAt = "page" /\ all_properties # <<>>) =>
        scraped_properties = all_properties

\* a search response with no hdnQtdPag, no hdnQtdRegistros and no hdnImov
NoHiddenFields ==
    [qtdPag |-> <<"absent", 0>>, qtdReg |-> <<"absent", 0>>, imov |-> <<>>]

\* C18 as claimed: when the search-start call returns a response without
\* the hidden fields, the run ends there with an error.
C18_MissingFieldsFail ==
    [][\A r \in PostResults(session, TRUE) :
          (r.result = "returned" /\ SearchStep(r, NoHiddenFields)) =>
              (ppc' = "idle" /\ runOut' \notin {"none", "done"})]_vars

\* the place of an endpoint in the order of a run
Rank(endpoint) ==
    CASE endpoint = "cidades" -> 1
      [] endpoint = "bairros" -> 2
      [] endpoint = "pesquisa" -> 3
      [] endpoint = "lista" -> 4

Requested(endpoint) == \E i \in 1..Len(log) : log[i][1] = endpoint

\* C19: the requests of a run are in the order city list, neighborhoods,
\* search start, page fragments, the first three at most once each; a run
\* that failed in city resolution made no neighborhood, search or page
\* request, and when no city matched its error carries the city names of
\* the response; a run that failed in the search start made no page request.
C19_RequestOrder ==
    /\ \A i, j \in 1..Len(log) :
           i < j => /\ Rank(log[i][1]) <= Rank(log[j][1])
                    /\ Rank(log[i][1]) < 4 => Rank(log[i][1]) < Rank(log[j][1])
    /\ failedAt = "city" =>
           /\ ppc = "idle"
           /\ ~Requested("bairros") /\ ~Requested("pesquisa")
           /\ ~Requested("lista")
           /\ runOut = "ValueError" =>
                  /\ cityOut.kind = "ValueError"
                  /\ cityOut.cities = AvailableCities(matches)
    /\ failedAt = "search" => ppc = "idle" /\ ~Requested("lista")

\* C19 witness: no city matched; the run failed with the names of the
\* response after its one request
C19_Witness ==
    /\ failedAt = "city"
    /\ runOut = "ValueError"
    /\ cityOut.cities # <<>>
    /\ log = <<<<"cidades", 0>>>>

\* C20: fragments are requested in strictly increasing page order; the
\* records gathered are in page order, those of one page in the order of
\* their extraction, and none is of a page after the latest one requested;
\* the list a completed run returns is this list.
C20_PagesInOrder ==
    /\ \A i, j \in ListaRequests : i < j => log[i][2] < log[j][2]
    /\ \A i, j \in 1..Len(all_properties) :
           i < j => \/ all_properties[i][1] < all_properties[j][1]
                    \/ /\ all_properties[i][1] = all_properties[j][1]
                       /\ all_properties[i][2] < all_properties[j][2]
    /\ \A i \in 1..Len(all_properties) : all_properties[i][1] \in FetchedPages
    /\ RunDone => scraped_properties = all_properties

\* C20 witness: a completed run that fetched pages 1 and 2 and returned a
\* record of each
C20_Witness ==
    /\ RunDone
    /\ {1, 2} \subseteq FetchedPages
    /\ scraped_properties = <<<<1, 1>>, <<2, 1>>>>

\* a search response with batches for pages 1 and 2 and v as the value of
\* hdnQtdPag
TwoBatches(v) ==
    [qtdPag |-> v, qtdReg |-> <<"int", 1>>,
     imov |-> <<<<<<"int", 1>>, <<"1">>>>, <<<<"int", 2>>, <<"1">>>>>>]

\* C24: a run that completes has requested the fragment of every page of
\* 1..total_paginas that has a non-empty batch, each by one fetch call, and
\* of no page whose batch is stored under a number outside 1..total_paginas;
\* and total_paginas is 1 when hdnQtdPag is absent, empty or not an integer.
C24_FetchesExactlyBatchPages ==
    [][/\ (RunDone =>
              /\ FetchedPages = BatchPages
              /\ Cardinality(ListaRequests) = Cardinality(BatchPages)
              /\ \A p \in DOMAIN ids_por_pagina :
                     p \notin 1..total_paginas => p \notin FetchedPages)'
       /\ \A r \in PostResults(session, TRUE),
             v \in {<<"absent", 0>>, <<"empty", 0>>, <<"text", 0>>} :
              (r.result = "returned" /\ SearchStep(r, TwoBatches(v))) =>
                  total_paginas' = 1]_vars

\* C24 witness: no page count in the response, batches for pages 1 and 2;
\* the run completed with one request, for page 1
C24_Witness ==
    /\ RunDone
    /\ total_paginas = 1
    /\ DOMAIN ids_por_pagina = {1, 2}
    /\ ids_por_pagina[2] # <<>>
    /\ FetchedPages = {1}
    /\ Cardinality(ListaRequests) = 1

\* a step in which a run of scrape_all_properties ends
RunEnds == ppc # "idle" /\ ppc' = "idle"

\* C25: self.scraped_properties is written only by the step that completes
\* a run, which stores the records of that run; every other step, the one
\* that ends a run with an error included, leaves it as it was.
C25_StoredListOnlyOnCompletion ==
    [][/\ (RunEnds /\ runOut' = "done") =>
              scraped_properties' = all_properties
       /\ ~(RunEnds /\ runOut' = "done") =>
              scraped_properties' = scraped_properties]_vars

\* C25 witness: the first run stored its records, the second gathered
\* others and failed on a page fetch; the stored list is still the first
\* run's
C25_Witness ==
    /\ ppc = "idle"
    /\ runsLeft = 0
    /\ failedAt = "page"
    /\ scraped_properties # <<>>
    /\ all_properties # <<>>
    /\ all_properties # scraped_properties

(***************************************************************************)
(* Claim on the wrapped fragments, checked under SpecFrag.                 *)
(***************************************************************************)
\* C26: every page given to the extractor in the page loop has the results
\* section, so its records are those of the listing items of the fragment,
\* whatever tables or form text the fragment carries; and every record
\* gathered, and every record of the list the run stores and returns, has a
\* non-empty title.
C26_WrappedFragmentsTitled ==
    /\ extracted =>
           /\ html_content.results
           /\ properties =
                  ItemsToProperties(html_content.items, bairros_disponiveis)
    /\ \A i \in 1..Len(all_properties) : TituloOf(all_properties[i]) # <<>>
    /\ RunDone =>
           /\ scraped_properties = all_properties
           /\ \A i \in 1..Len(scraped_properties) :
                  TituloOf(scraped_properties[i]) # <<>>

\* C26 witness: the fragment of the second page carried a table, the form
\* text and one item; the run returned the record of that item after the
\* record of the first page
C26_Witness ==
    /\ RunDone
    /\ html_content.form
    /\ html_content.tables # <<>>
    /\ Len(html_content.items) = 1
    /\ Len(properties) = 1
    /\ Len(scraped_properties) = 2

(***************************************************************************)
(* Claims on the session's life, checked under SpecClient.                 *)
(***************************************************************************)
\* a step in which the caller starts a call of _post/_get
CallStarts == callsLeft' = callsLeft - 1

\* a step in which _refresh_session ran
Refreshes == closes' = closes + 1

\* C21: no session exists before the first call; a call that starts without
\* a session and leaves one built it with one handshake GET; a call that
\* starts while a session exists issues no handshake and keeps the session;
\* and an existing session is given up only by the refresh that follows a
\* captcha.
C21_SessionLazyAndKept ==
    [][/\ callsLeft = MaxCalls => session = "none"
       /\ (CallStarts /\ session = "none" /\ session' # "none") =>
              sent' = CountRequest(sent, "ok")
       /\ (CallStarts /\ session # "none") =>
              session' = session /\ sent' = sent
       /\ (session # "none" /\ ~Refreshes) => session' = session
       /\ Refreshes => lastGot' = "captcha"]_vars

\* C21 witness: the second call runs on the session the first call built,
\* no refresh in between
C21_Witness ==
    /\ callsLeft = 0
    /\ pc = "body"
    /\ attempts = 0
    /\ session = "ready"
    /\ closes = 0
    /\ sent[1] = 2

====
